---- MODULE Spec2Model ----
(***************************************************************************)
(* A model of the memoize package: memoize(function_, options), the        *)
(* memoized wrapper it returns, memoizeClear, and the host timer facility  *)
(* (setTimeout / clearTimeout / Date.now) the wrapper uses for expiry;     *)
(* and memoizeDecorator with the methods and getters of a class it is      *)
(* applied to.                                                             *)
(*                                                                         *)
(* Function identities are integers: F (0) is the original callable, a     *)
(* counter `() => ++index` as in the package's own example; 1, 2, ... are  *)
(* the wrappers in the order memoize created them.                         *)
(***************************************************************************)
EXTENDS Integers, Sequences, FiniteSets, TLC

\* ------------------------------------------------------------------ bounds
MaxWrappers == 2     \* wrappers memoize may create
MaxCalls == 2        \* invocations of the original callable
MaxTime == 2         \* ticks of the host clock
MaxTimers == 2       \* timers the host hands out
MaxDepth == 2        \* nested executions of the original callable
MaxReceivers == 2    \* instances of the decorated class
MaxDecorators == 2   \* decorators memoizeDecorator may return
MaxDecorated == 2    \* members of the class that carry a decorator

\* ------------------------------------------------------- JavaScript numbers
\* A JavaScript number n is the pair <<hi, lo>> with n = hi * Base + lo and
\* 0 <= lo < Base, so that 2147483648 and Date.now() + 2147483647 exist.
Base == 2 ^ 16

Num(n) == <<n \div Base, n % Base>>

NumAdd(a, b) == <<a[1] + b[1] + ((a[2] + b[2]) \div Base), (a[2] + b[2]) % Base>>

NumLess(a, b) == a[1] < b[1] \/ (a[1] = b[1] /\ a[2] < b[2])

maxSetIntervalValue == 2147483647

\* Number.POSITIVE_INFINITY: above every number the model builds.
POSITIVE_INFINITY == <<Base, 0>>

\* The value of an option that was not given.
Undefined == <<>>

\* ------------------------------------------------------------------ inputs
F == 0

Originals == {F}

ArgLists == {<<"a">>, <<"a", "b">>, <<"b">>}

\* The option objects memoize is called with: each option alone, at its default
\* and at the values the code distinguishes.
Options(maxAge, cacheKey, cacheOption) ==
    [maxAge |-> maxAge, cacheKey |-> cacheKey, cache |-> cacheOption]

OptionSets ==
    { Options(maxAge, "undefined", "Map") :
        maxAge \in { Undefined, Num(-1), Num(0), Num(1), Num(maxSetIntervalValue),
                     NumAdd(Num(maxSetIntervalValue), Num(1)) } }
    \cup { Options(Undefined, "JSON.stringify", "Map"),
           Options(Num(1), "undefined", "custom") }

VARIABLES
    memoized,         \* the closures of the wrappers: <<[function_, maxAge, cacheKey, cache]>>
    cacheStore,       \* WeakMap: wrapper -> storage
    cacheTimerStore,  \* WeakMap: function -> set of timer handles
    cache,            \* the storages: <<[key -> [data, maxAge]]>>
    clearable,        \* per storage: does it implement clear()
    timers,           \* the host's timers: <<[cache, key, setAt, delay, state]>>
    now,              \* the host clock, Date.now()
    index,            \* how often each original callable has run
    stack,            \* the executions in progress, innermost last
    last,             \* what the last operation did and returned
    decorators,       \* the closures of the decorators: <<[options, storage, maps]>>
    descriptors,      \* per class member: the decorator that replaced its descriptor
    instances,        \* per receiver: this.index
    access            \* the member and the receiver of the last member access

decoratorVars == <<decorators, descriptors, instances, access>>

vars ==
    << memoized, cacheStore, cacheTimerStore, cache, clearable, timers, now,
       index, stack, last, decorators, descriptors, instances, access >>

\* ------------------------------------------------------- the storage contract
EmptyMap == [k \in {} |-> 0]

MapHas(m, k) == k \in DOMAIN m

\* A set that keeps the item a key already has.
MapSetIfAbsent(m, k, v) == [x \in DOMAIN m \cup {k} |-> IF x \in DOMAIN m THEN m[x] ELSE v]

MapSet(m, k, v) == [x \in DOMAIN m \cup {k} |-> IF x = k THEN v ELSE m[x]]

MapDelete(m, k) == [x \in DOMAIN m \ {k} |-> m[x]]

\* ------------------------------------------------------------- key derivation
Quote(str) == "\"" \o str \o "\""

RECURSIVE Join(_)
Join(arguments_) ==
    IF Len(arguments_) = 0 THEN ""
    ELSE IF Len(arguments_) = 1 THEN Quote(arguments_[1])
    ELSE Quote(Head(arguments_)) \o "," \o Join(Tail(arguments_))

\* JSON.stringify of an argument list of strings, the documented cacheKey.
JSONStringify(arguments_) == "[" \o Join(arguments_) \o "]"

\* A default key made of the whole argument list.
KeyOfAllArguments(cacheKey, arguments_) == JSONStringify(arguments_)

\* const key = cacheKey ? cacheKey(arguments_) : arguments_[0]
KeyOf(cacheKey, arguments_) ==
    IF cacheKey # "undefined" THEN JSONStringify(arguments_) ELSE arguments_[1]

\* -------------------------------------------------------------- memoize: options
IsNumber(maxAge) == maxAge # Undefined

\* A memoize without its early return for maxAge 0.
ReturnsOriginalNever(maxAge) == FALSE

\* if (maxAge === 0) return function_
ReturnsOriginal(maxAge) == maxAge = Num(0)

\* The upper range check written with >= for >.
MaxAgeErrorOffByOne(maxAge) ==
    IF ~IsNumber(maxAge) THEN "none"
    ELSE IF ~NumLess(maxAge, Num(maxSetIntervalValue)) THEN "TypeError: cannot exceed"
    ELSE IF NumLess(maxAge, Num(0)) THEN "TypeError: negative"
    ELSE "none"

\* The two range checks of memoize: the TypeError it throws, or "none".
MaxAgeError(maxAge) ==
    IF ~IsNumber(maxAge) THEN "none"
    ELSE IF NumLess(Num(maxSetIntervalValue), maxAge) THEN "TypeError: cannot exceed"
    ELSE IF NumLess(maxAge, Num(0)) THEN "TypeError: negative"
    ELSE "none"

\* maxAge ? Date.now() + maxAge : Number.POSITIVE_INFINITY
ExpiresAt(maxAge, dateNow) ==
    IF IsNumber(maxAge) /\ maxAge # Num(0) THEN NumAdd(Num(dateNow), maxAge)
    ELSE POSITIVE_INFINITY

\* typeof maxAge === 'number' && maxAge !== Number.POSITIVE_INFINITY
SchedulesTimer(maxAge) == IsNumber(maxAge) /\ maxAge # POSITIVE_INFINITY

\* ---------------------------------------------------------------- the call stack
IsOriginal(fn) == fn \in Originals

Wrappers == 1..Len(memoized)

Functions == Originals \cup Wrappers

\* The executions of an original callable in progress.
Bodies(stk) == {i \in 1..Len(stk) : IsOriginal(stk[i].fn)}

\* User code runs at the top level and inside the body of an original callable.
UserCode == IF stack = <<>> THEN TRUE ELSE IsOriginal(stack[Len(stack)].fn)

\* The registry key the timer of a store is recorded under.
TimerOwner(closure) == closure.function_

\* cache.set(key, {data, maxAge}) and, with a finite maxAge, setTimeout and the
\* registration of its handle (the tail of memoized after function_ returned).
StoreIn(s, closure, key, result) ==
    LET c == closure.cache
        item == [data |-> result, maxAge |-> ExpiresAt(closure.maxAge, now)]
        s1 == [s EXCEPT !.cache[c] = MapSet(@, key, item)]
        timer == Len(s.timers) + 1
        owner == TimerOwner(closure)
        known == IF owner \in DOMAIN s.cacheTimerStore
                 THEN s.cacheTimerStore[owner] ELSE {}
    IN  IF SchedulesTimer(closure.maxAge)
        THEN [s1 EXCEPT
                !.timers = Append(@, [cache |-> c, key |-> key, setAt |-> now,
                                      delay |-> closure.maxAge, state |-> "pending"]),
                !.cacheTimerStore =
                    [f \in DOMAIN @ \cup {owner} |-> IF f = owner THEN known \cup {timer} ELSE @[f]]]
        ELSE s1

\* The store made by the wrapper of frame fr once its function_ has returned.
Store(s, fr, result) == StoreIn(s, memoized[fr.fn], fr.key, result)

\* A value comes back to the innermost execution: every wrapper waiting for it
\* stores it and returns it in turn, until user code receives it.
RECURSIVE Deliver(_, _)
Deliver(s, result) ==
    IF s.stack = <<>> \/ IsOriginal(s.stack[Len(s.stack)].fn)
    THEN [s EXCEPT !.value = result]
    ELSE LET fr == s.stack[Len(s.stack)]
         IN  Deliver([Store(s, fr, result) EXCEPT !.stack = SubSeq(@, 1, Len(@) - 1)],
                     result)

\* A lookup that never finds the item (the test of cacheItem inverted away).
IsHitNever(store, key) == FALSE

\* A lookup that also compares the expiry time of the item with the clock.
IsHitFresh(store, key) == MapHas(store, key) /\ NumLess(Num(now), store[key].maxAge)

\* if (cacheItem) return cacheItem.data
IsHit(store, key) == MapHas(store, key)

\* A memoized with sliding expiration: a hit stores the item again, with a new
\* expiry time and a new timer.
RECURSIVE InvokeSliding(_, _, _)
InvokeSliding(s, fn, arguments_) ==
    IF IsOriginal(fn)
    THEN [s EXCEPT
            !.index[fn] = @ + 1,
            !.stack = Append(@, [fn |-> fn, key |-> "", result |-> s.index[fn] + 1])]
    ELSE LET closure == memoized[fn]
             key == KeyOf(closure.cacheKey, arguments_)
             store == s.cache[closure.cache]
         IN  IF IsHit(store, key)
             THEN Deliver(StoreIn(s, closure, key, store[key].data), store[key].data)
             ELSE InvokeSliding([s EXCEPT !.stack = Append(@, [fn |-> fn, key |-> key, result |-> 0])],
                                closure.function_, arguments_)

\* fn(...arguments_): the body of memoized up to and including function_.apply,
\* or the start of the original callable itself.
RECURSIVE Invoke(_, _, _)
Invoke(s, fn, arguments_) ==
    IF IsOriginal(fn)
    THEN [s EXCEPT
            !.index[fn] = @ + 1,
            !.stack = Append(@, [fn |-> fn, key |-> "", result |-> s.index[fn] + 1])]
    ELSE LET closure == memoized[fn]
             key == KeyOf(closure.cacheKey, arguments_)
             store == s.cache[closure.cache]
         IN  IF IsHit(store, key)
             THEN Deliver(s, store[key].data)
             ELSE Invoke([s EXCEPT !.stack = Append(@, [fn |-> fn, key |-> key, result |-> 0])],
                         closure.function_, arguments_)

\* An exception leaves the innermost execution: memoized has no handler, so it
\* passes through every waiting wrapper and reaches user code.
RECURSIVE Unwind(_)
Unwind(stk) ==
    IF stk = <<>> \/ IsOriginal(stk[Len(stk)].fn) THEN stk
    ELSE Unwind(SubSeq(stk, 1, Len(stk) - 1))

Heap ==
    [cache |-> cache, timers |-> timers, cacheTimerStore |-> cacheTimerStore,
     index |-> index, stack |-> stack, value |-> 0]

\* What an operation did, as its caller sees it: the function it was applied to,
\* the arguments and the derived key of a call, how it ended, the value returned.
Obs(op, fn, arguments_, key, outcome, value) ==
    [op |-> op, fn |-> fn, arguments_ |-> arguments_, key |-> key,
     outcome |-> outcome, value |-> value]

\* --------------------------------------------------------- the decorated class
\* The class the decorators are applied to: two methods and two getters, each
\* incrementing this.index, and the data property index itself.
Receivers == 1..MaxReceivers

Members == {"counter", "total", "value", "size", "index"}

Kind(member) ==
    IF member \in {"counter", "total"} THEN "method"
    ELSE IF member \in {"value", "size"} THEN "getter"
    ELSE "field"

MemberNo(member) ==
    CASE member = "counter" -> 1
      [] member = "total" -> 2
      [] member = "value" -> 3
      [] member = "size" -> 4
      [] OTHER -> 5

\* originalMethod.bind(this): a function of its own per member and receiver,
\* numbered below every other function.
Bound(member, receiver) == 0 - (MemberNo(member) * (MaxReceivers + 1) + receiver)

BoundMember(fn) == CHOOSE member \in Members : \E r \in Receivers : Bound(member, r) = fn

BoundThis(fn) == CHOOSE r \in Receivers : \E member \in Members : Bound(member, r) = fn

\* What a member returns when it has just made this.index n: each member's
\* results are its own.
Result(member, n) == MemberNo(member) * (MaxCalls + 1) + n

\* ------------------------------------------------------------------ the state
Init ==
    /\ memoized = <<>>
    /\ cacheStore = EmptyMap
    /\ cacheTimerStore = EmptyMap
    /\ cache = <<>>
    /\ clearable = <<>>
    /\ timers = <<>>
    /\ now = 0
    /\ index = [f \in Originals |-> 0]
    /\ stack = <<>>
    /\ last = Obs("init", F, <<>>, "", "none", 0)
    /\ decorators = <<>>
    /\ descriptors = [member \in Members |-> 0]
    /\ instances = [r \in Receivers |-> 0]
    /\ access = [member |-> "", receiver |-> 0]

\* The options of the wrappers made so far: a program passes one options object
\* to its memoize calls, as memoizeDecorator does for every receiver.
SameOptions(maxAge, cacheKey, cacheOption) ==
    \A w \in Wrappers :
        /\ memoized[w].maxAge = maxAge
        /\ memoized[w].cacheKey = cacheKey
        /\ clearable[memoized[w].cache] = (cacheOption = "Map")

\* memoize(function_, {cacheKey, cache, maxAge}), called by top-level code.
Memoize(function_, maxAge, cacheKey, cacheOption) ==
    /\ stack = <<>>
    /\ IF ReturnsOriginal(maxAge)
       THEN /\ last' = Obs("memoize", function_, <<>>, "", "returned", function_)
            /\ UNCHANGED <<memoized, cacheStore, cache, clearable>>
       ELSE IF MaxAgeError(maxAge) # "none"
       THEN /\ last' = Obs("memoize", function_, <<>>, "", MaxAgeError(maxAge), 0)
            /\ UNCHANGED <<memoized, cacheStore, cache, clearable>>
       ELSE LET wrapper == Len(memoized) + 1
                c == Len(cache) + 1
            IN  /\ Len(memoized) < MaxWrappers
                /\ SameOptions(maxAge, cacheKey, cacheOption)
                /\ cache' = Append(cache, EmptyMap)
                /\ clearable' = Append(clearable, cacheOption = "Map")
                /\ memoized' = Append(memoized,
                                      [function_ |-> function_, maxAge |-> maxAge,
                                       cacheKey |-> cacheKey, cache |-> c])
                /\ cacheStore' = MapSet(cacheStore, wrapper, c)
                /\ last' = Obs("memoize", function_, <<>>, "", "returned", wrapper)
    /\ UNCHANGED <<cacheTimerStore, timers, now, index, stack>>

\* fn(...arguments_) from user code, fn an original callable or a wrapper.
Call(fn, arguments_) ==
    LET s == Invoke(Heap, fn, arguments_)
        key == IF IsOriginal(fn) THEN ""
               ELSE KeyOf(memoized[fn].cacheKey, arguments_)
        outcome == IF IsOriginal(fn) THEN "direct"
                   ELSE IF IsHit(cache[memoized[fn].cache], key) THEN "hit"
                   ELSE "miss"
    IN  /\ UserCode
        /\ s.index[F] <= MaxCalls
        /\ Cardinality(Bodies(s.stack)) <= MaxDepth
        /\ Len(s.timers) <= MaxTimers
        /\ cache' = s.cache
        /\ timers' = s.timers
        /\ cacheTimerStore' = s.cacheTimerStore
        /\ index' = s.index
        /\ stack' = s.stack
        /\ last' = Obs("call", fn, arguments_, key, outcome, s.value)
        /\ UNCHANGED <<memoized, cacheStore, clearable, now>>

\* The innermost execution of the original callable returns its result.
Return ==
    /\ stack # <<>>
    /\ LET fr == stack[Len(stack)]
           popped == [Heap EXCEPT !.stack = SubSeq(@, 1, Len(@) - 1)]
           s == Deliver(popped, fr.result)
           outer == stack[Len(s.stack) + 1]
       IN  /\ IsOriginal(fr.fn)
           /\ Len(s.timers) <= MaxTimers
           /\ cache' = s.cache
           /\ timers' = s.timers
           /\ cacheTimerStore' = s.cacheTimerStore
           /\ stack' = s.stack
           /\ last' = Obs("return", outer.fn, <<>>, outer.key, "returned", s.value)
    /\ UNCHANGED <<memoized, cacheStore, clearable, now, index>>

\* A memoized that catches the failure and caches it before rethrowing.
RaiseCaching(s) ==
    LET below == Len(s.stack) - 1
        kept == IF below >= 1 /\ ~IsOriginal(s.stack[below].fn)
                THEN Store(s, s.stack[below], 0) ELSE s
    IN  [kept EXCEPT !.stack = Unwind(SubSeq(@, 1, Len(@) - 1))]

\* The innermost execution of the original callable throws: function_.apply
\* does not return, so memoized runs none of its statements after it.
Raise(s) == [s EXCEPT !.stack = Unwind(SubSeq(@, 1, Len(@) - 1))]

Throw ==
    /\ stack # <<>>
    /\ LET fr == stack[Len(stack)]
           s == Raise(Heap)
           outer == stack[Len(s.stack) + 1]
       IN  /\ IsOriginal(fr.fn)
           /\ cache' = s.cache
           /\ timers' = s.timers
           /\ cacheTimerStore' = s.cacheTimerStore
           /\ stack' = s.stack
           /\ last' = Obs("throw", outer.fn, <<>>, outer.key, "threw", 0)
    /\ UNCHANGED <<memoized, cacheStore, clearable, now, index>>

\* What the host keeps of a timer that fired or was cleared: the handle and
\* what its callback was for; its schedule is gone.
Spent(timer, state) == [timer EXCEPT !.setAt = 0, !.delay = Num(0), !.state = state]

\* clearTimeout(timer): a pending timer never fires; any other is left as it is.
ClearTimeout(tms, timer) ==
    IF tms[timer].state = "pending" THEN [tms EXCEPT ![timer] = Spent(@, "cleared")] ELSE tms

\* for (const timer of cacheTimerStore.get(function_) ?? []) clearTimeout(timer)
ClearTimers(function_) ==
    LET found == IF function_ \in DOMAIN cacheTimerStore
                 THEN cacheTimerStore[function_] ELSE {}
    IN  [t \in DOMAIN timers |->
            IF t \in found THEN ClearTimeout(timers, t)[t] ELSE timers[t]]

\* A clear() that leaves the storage as it was.
ClearStorageKeeps(c) == cache

\* A clear() that empties every storage there is, as if the wrappers shared one.
ClearStorageAll(c) == [d \in DOMAIN cache |-> EmptyMap]

\* cache.clear()
ClearStorage(c) == [cache EXCEPT ![c] = EmptyMap]

\* A memoizeClear without its second check.
ClearErrorUnchecked(function_) ==
    IF function_ \notin DOMAIN cacheStore THEN "TypeError: not memoized" ELSE "none"

\* A memoizeClear that refuses a storage it has already emptied.
ClearErrorAfterClear(function_) ==
    IF function_ \notin DOMAIN cacheStore THEN "TypeError: not memoized"
    ELSE IF ~clearable[cacheStore[function_]] THEN "TypeError: can't be cleared"
    ELSE IF cache[cacheStore[function_]] = EmptyMap THEN "TypeError: not memoized"
    ELSE "none"

\* The TypeError memoizeClear throws for function_, or "none".
ClearError(function_) ==
    IF function_ \notin DOMAIN cacheStore THEN "TypeError: not memoized"
    ELSE IF ~clearable[cacheStore[function_]] THEN "TypeError: can't be cleared"
    ELSE "none"

\* memoizeClear(function_)
MemoizeClear(function_) ==
    /\ UserCode
    /\ IF ClearError(function_) # "none"
       THEN /\ last' = Obs("memoizeClear", function_, <<>>, "", ClearError(function_), 0)
            /\ UNCHANGED <<cache, timers>>
       ELSE /\ cache' = ClearStorage(cacheStore[function_])
            /\ timers' = ClearTimers(function_)
            /\ last' = Obs("memoizeClear", function_, <<>>, "", "cleared", 0)
    /\ UNCHANGED <<memoized, cacheStore, cacheTimerStore, clearable, now, index, stack>>

\* The host may run a timer's callback once its delay has passed and no call
\* is executing.
Due(timer) ==
    /\ timers[timer].state = "pending"
    /\ ~NumLess(Num(now - timers[timer].setAt), timers[timer].delay)

\* A callback that deletes under another key than the one it was made for.
TimerCallbackOtherKey(timer) == cache

\* () => { cache.delete(key) }
TimerCallback(timer) ==
    [cache EXCEPT ![timers[timer].cache] = MapDelete(@, timers[timer].key)]

TimerFire(timer) ==
    /\ stack = <<>>
    /\ Due(timer)
    /\ cache' = TimerCallback(timer)
    /\ timers' = [timers EXCEPT ![timer] = Spent(@, "fired")]
    /\ last' = Obs("timer", timers[timer].cache, <<>>, timers[timer].key, "fired", timer)
    /\ UNCHANGED <<memoized, cacheStore, cacheTimerStore, clearable, now, index, stack>>

\* The host clock advances by a millisecond.
Tick ==
    /\ now < MaxTime
    /\ now' = now + 1
    /\ last' = Obs("tick", F, <<>>, "", "none", 0)
    /\ UNCHANGED <<memoized, cacheStore, cacheTimerStore, cache, clearable, timers,
                   index, stack>>

\* A program that uses memoize and memoizeClear and decorates nothing.
Next ==
    /\ \/ \E fn \in Functions, options \in OptionSets :
            Memoize(fn, options.maxAge, options.cacheKey, options.cache)
       \/ \E fn \in Functions, arguments_ \in ArgLists : Call(fn, arguments_)
       \/ Return
       \/ Throw
       \/ \E fn \in Functions : MemoizeClear(fn)
       \/ \E timer \in DOMAIN timers : TimerFire(timer)
       \/ Tick
    /\ UNCHANGED decoratorVars

Spec == Init /\ [][Next]_vars

\* ------------------------------------------------------------- memoizeDecorator
\* Decorators are made and applied while the class is being defined, before any
\* member of an instance is used.
Defining == last.op \in {"init", "memoizeDecorator", "decorate"}

NoAccess == [member |-> "", receiver |-> 0]

\* The class passes one options object to its memoizeDecorator calls.
DecoratorSameOptions(maxAge, cacheKey, cacheOption) ==
    \A d \in DOMAIN decorators :
        /\ decorators[d].maxAge = maxAge
        /\ decorators[d].cacheKey = cacheKey
        /\ (decorators[d].storage # 0) = (cacheOption = "custom")

\* The members are decorated in the order the class declares them, and the
\* class declares a decorated method ("counter") before a second one ("total"),
\* a decorated getter ("value") before a second one ("size").
DeclaredAfter(propertyKey) ==
    /\ \A member \in Members :
        descriptors[member] # 0 => MemberNo(member) < MemberNo(propertyKey)
    /\ propertyKey = "total" => descriptors["counter"] # 0
    /\ propertyKey = "size" => descriptors["value"] # 0

\* A decorator is made where the class applies it first: every decorator made
\* before has been applied by then.
Applied(decorator) == \E member \in Members : descriptors[member] = decorator

\* The instances are numbered in the order the program first uses them: one is
\* used once the one before it has run a member or has a slot in a WeakMap.
Used(receiver) ==
    \/ instances[receiver] > 0
    \/ \E d \in DOMAIN decorators :
        \/ receiver \in DOMAIN decorators[d].memoizedMethodsMap
        \/ receiver \in DOMAIN decorators[d].memoizedValuesMap

InOrder(receiver) == IF receiver = 1 THEN TRUE ELSE Used(receiver - 1)

\* How often the members of the instances have run so far.
RECURSIVE Runs(_, _)
Runs(counts, r) == IF r = 0 THEN 0 ELSE counts[r] + Runs(counts, r - 1)

\* memoizeDecorator(options): two fresh WeakMaps, closed over by the decorator
\* it returns; options is kept as it was given, a storage passed in it included.
MemoizeDecorator(maxAge, cacheKey, cacheOption) ==
    LET storage == IF cacheOption = "custom" THEN Len(cache) + 1 ELSE 0
    IN  /\ Defining
        /\ Len(decorators) < MaxDecorators
        /\ \A d \in DOMAIN decorators : Applied(d)
        /\ DecoratorSameOptions(maxAge, cacheKey, cacheOption)
        /\ decorators' = Append(decorators,
                                [maxAge |-> maxAge, cacheKey |-> cacheKey, storage |-> storage,
                                 memoizedMethodsMap |-> EmptyMap,
                                 memoizedValuesMap |-> EmptyMap])
        /\ cache' = IF storage # 0 THEN Append(cache, EmptyMap) ELSE cache
        /\ clearable' = IF storage # 0 THEN Append(clearable, FALSE) ELSE clearable
        /\ last' = Obs("memoizeDecorator", F, <<>>, "", "returned", Len(decorators) + 1)
        /\ access' = NoAccess
        /\ UNCHANGED <<memoized, cacheStore, cacheTimerStore, timers, now, index, stack,
                       descriptors, instances>>

\* decorator(_target, propertyKey, descriptor): the descriptor of a method or a
\* getter is replaced, anything else is refused.
Decorate(decorator, propertyKey) ==
    /\ Defining
    /\ descriptors[propertyKey] = 0
    /\ DeclaredAfter(propertyKey)
    /\ Cardinality({member \in Members : descriptors[member] # 0}) < MaxDecorated
    /\ IF Kind(propertyKey) = "field"
       THEN /\ last' = Obs("decorate", F, <<>>, "", "TypeError: must be a function or a getter", 0)
            /\ UNCHANGED descriptors
       ELSE /\ descriptors' = [descriptors EXCEPT ![propertyKey] = decorator]
            /\ last' = Obs("decorate", F, <<>>, "", "returned", decorator)
    /\ access' = [member |-> propertyKey, receiver |-> 0]
    /\ UNCHANGED <<memoized, cacheStore, cacheTimerStore, cache, clearable, timers, now,
                   index, stack, decorators, instances>>

\* memoizedMethodsMap.get(this) !== undefined
MethodKnown(decorator, receiver) ==
    receiver \in DOMAIN decorators[decorator].memoizedMethodsMap

\* memoizedMethodsMap.get(this) or, without it, memoize(originalMethod.bind(this),
\* options): the function the method applies (or the TypeError of memoize), with
\* the closures and the storages as the memoize call leaves them.
MemoizedFunction(d, member, receiver) ==
    LET dec == decorators[d]
        known == MethodKnown(d, receiver)
        bound == Bound(member, receiver)
        error == IF known \/ ReturnsOriginal(dec.maxAge) THEN "none"
                 ELSE MaxAgeError(dec.maxAge)
        creates == ~known /\ ~ReturnsOriginal(dec.maxAge) /\ error = "none"
        c == IF dec.storage # 0 THEN dec.storage ELSE Len(cache) + 1
    IN  [error |-> error,
         creates |-> creates,
         cache |-> c,
         fn |-> IF known THEN dec.memoizedMethodsMap[receiver]
                ELSE IF creates THEN Len(memoized) + 1
                ELSE bound,
         closures |-> IF creates
                      THEN Append(memoized, [function_ |-> bound, maxAge |-> dec.maxAge,
                                             cacheKey |-> dec.cacheKey, cache |-> c])
                      ELSE memoized,
         caches |-> IF creates /\ dec.storage = 0 THEN Append(cache, EmptyMap) ELSE cache,
         clearable |-> IF creates /\ dec.storage = 0 THEN Append(clearable, TRUE)
                       ELSE clearable]

\* memoizedFunction(...arguments_): the lookup and, on a miss, the run of the
\* original method on the receiver it is bound to and the store of its result;
\* a function memoize returned unwrapped runs the method every time.
Apply(m, arguments_, ending) ==
    LET wrapped == m.fn > 0
        closure == m.closures[m.fn]
        key == IF wrapped THEN KeyOf(closure.cacheKey, arguments_) ELSE ""
        hit == IF wrapped THEN IsHit(m.caches[closure.cache], key) ELSE FALSE
        original == IF wrapped THEN closure.function_ ELSE m.fn
        this == BoundThis(original)
        n == instances[this] + 1
        result == Result(BoundMember(original), n)
        s0 == [Heap EXCEPT !.cache = m.caches]
    IN  IF hit
        THEN [key |-> key, outcome |-> "hit", value |-> m.caches[closure.cache][key].data,
              this |-> this, heap |-> s0]
        ELSE [key |-> key,
              outcome |-> IF ending = "threw" THEN "threw"
                          ELSE IF wrapped THEN "miss" ELSE "direct",
              value |-> IF ending = "threw" THEN 0 ELSE result,
              this |-> this,
              heap |-> IF wrapped /\ ending = "returned"
                       THEN StoreIn(s0, closure, key, result) ELSE s0]

\* receiver.member(...arguments_) for a decorated method: the replaced
\* descriptor.value, with the memoize call and the call of the wrapped function
\* it makes; ending is how originalMethod ends if it runs.
DescriptorValue(member, receiver, arguments_, ending) ==
    /\ stack = <<>>
    /\ descriptors[member] # 0
    /\ Kind(member) = "method"
    /\ InOrder(receiver)
    /\ access' = [member |-> member, receiver |-> receiver]
    /\ \E m \in {MemoizedFunction(descriptors[member], member, receiver)} :
        IF m.error # "none"
        THEN /\ ending = "returned"
             /\ last' = Obs("method", Bound(member, receiver), arguments_, "", m.error, 0)
             /\ UNCHANGED <<memoized, cacheStore, cacheTimerStore, cache, clearable,
                            timers, decorators, instances>>
        ELSE /\ Len(m.closures) <= MaxWrappers
             /\ memoized' = m.closures
             /\ clearable' = m.clearable
             /\ cacheStore' = IF m.creates THEN MapSet(cacheStore, m.fn, m.cache)
                              ELSE cacheStore
             /\ decorators' =
                    [decorators EXCEPT ![descriptors[member]].memoizedMethodsMap =
                        MapSet(@, receiver, m.fn)]
             /\ \E a \in {Apply(m, arguments_, ending)} :
                    /\ a.outcome = "hit" => ending = "returned"
                    /\ a.outcome # "hit" => Runs(instances, MaxReceivers) < MaxCalls
                    /\ Len(a.heap.timers) <= MaxTimers
                    /\ instances' = IF a.outcome = "hit" THEN instances
                                    ELSE [instances EXCEPT ![a.this] = @ + 1]
                    /\ cache' = a.heap.cache
                    /\ timers' = a.heap.timers
                    /\ cacheTimerStore' = a.heap.cacheTimerStore
                    /\ last' = Obs("method", m.fn, arguments_, a.key, a.outcome, a.value)
    /\ UNCHANGED <<now, index, stack, descriptors>>

\* memoizedValuesMap.has(this)
ValueKnown(decorator, receiver) ==
    receiver \in DOMAIN decorators[decorator].memoizedValuesMap

\* receiver.member for a decorated getter: the replaced descriptor.get, with
\* the call of the original getter it makes.
DescriptorGet(member, receiver, ending) ==
    LET d == descriptors[member]
        dec == decorators[d]
        n == instances[receiver] + 1
        value == Result(member, n)
    IN  /\ stack = <<>>
        /\ d # 0
        /\ Kind(member) = "getter"
        /\ InOrder(receiver)
        /\ access' = [member |-> member, receiver |-> receiver]
        /\ IF ValueKnown(d, receiver)
           THEN /\ ending = "returned"
                /\ last' = Obs("get", Bound(member, receiver), <<>>, "", "cached",
                               dec.memoizedValuesMap[receiver])
                /\ UNCHANGED <<decorators, instances>>
           ELSE /\ Runs(instances, MaxReceivers) < MaxCalls
                /\ instances' = [instances EXCEPT ![receiver] = n]
                /\ IF ending = "threw"
                   THEN /\ last' = Obs("get", Bound(member, receiver), <<>>, "", "threw", 0)
                        /\ UNCHANGED decorators
                   ELSE /\ last' = Obs("get", Bound(member, receiver), <<>>, "", "computed", value)
                        /\ decorators' =
                            [decorators EXCEPT ![d].memoizedValuesMap = MapSet(@, receiver, value)]
    /\ UNCHANGED <<memoized, cacheStore, cacheTimerStore, cache, clearable, timers, now,
                   index, stack, descriptors>>

\* A program that defines a class with decorated members and uses its instances.
DecoratorNext ==
    \/ \E options \in OptionSets :
            MemoizeDecorator(options.maxAge, options.cacheKey, options.cache)
    \/ \E d \in DOMAIN decorators, member \in Members : Decorate(d, member)
    \/ \E member \in Members, receiver \in Receivers, arguments_ \in ArgLists,
          ending \in {"returned", "threw"} :
            DescriptorValue(member, receiver, arguments_, ending)
    \/ \E member \in Members, receiver \in Receivers, ending \in {"returned", "threw"} :
            DescriptorGet(member, receiver, ending)
    \/ \E timer \in DOMAIN timers : TimerFire(timer) /\ UNCHANGED decoratorVars
    \/ Tick /\ UNCHANGED decoratorVars

DecoratorSpec == Init /\ [][DecoratorNext]_vars

\* ------------------------------------------------------------ claims: helpers
\* memoize(f) with no option given.
DefaultOptions(w) ==
    /\ memoized[w].maxAge = Undefined
    /\ memoized[w].cacheKey = "undefined"
    /\ clearable[memoized[w].cache]

\* A call of wrapper w for key k has started and not yet come back.
InProgress(w, k) == \E i \in 1..Len(stack) : stack[i].fn = w /\ stack[i].key = k

\* This step is the call fn(...arguments_) from user code.
CallStep(fn, arguments_) ==
    last'.op = "call" /\ last'.fn = fn /\ last'.arguments_ = arguments_

\* This step is memoizeClear(fn).
ClearStep(fn) == last'.op = "memoizeClear" /\ last'.fn = fn

\* This step is memoize(fn, options).
MemoizeStep(fn, options) ==
    /\ last'.op = "memoize"
    /\ last'.fn = fn
    /\ Memoize(fn, options.maxAge, options.cacheKey, options.cache)

\* This step is a memoizeClear that succeeded on storage c.
ClearedStep(c) ==
    /\ last'.op = "memoizeClear"
    /\ last'.outcome = "cleared"
    /\ cacheStore[last'.fn] = c

\* This step is the return of an original callable; the wrappers it returns
\* through are the frames the step takes off the stack below the top one.
ReturnStep == last'.op = "return"

ReturnedThrough == {i \in (Len(stack') + 1)..(Len(stack) - 1) : ~IsOriginal(stack[i].fn)}

\* ------------------------------------------------------------------------ C1
C1Step ==
    \A w \in Wrappers :
        DefaultOptions(w) =>
            LET c == memoized[w].cache
            IN  /\ \A arguments_ \in ArgLists :
                    CallStep(w, arguments_) =>
                        IF arguments_[1] \in DOMAIN cache[c]
                        THEN /\ last'.outcome = "hit"
                             /\ last'.value = cache[c][arguments_[1]].data
                             /\ index' = index
                             /\ cache' = cache
                             /\ stack' = stack
                        ELSE /\ last'.outcome = "miss"
                             /\ memoized[w].function_ = F => index'[F] = index[F] + 1
                /\ ReturnStep =>
                    \A i \in ReturnedThrough :
                        stack[i].fn = w =>
                            /\ last'.value = stack[Len(stack)].result
                            /\ stack[i].key \in DOMAIN cache'[c]
                            /\ cache'[c][stack[i].key].data = stack[Len(stack)].result
                /\ \A k \in DOMAIN cache[c] :
                    (~InProgress(w, k) /\ ~ClearedStep(c)) =>
                        /\ k \in DOMAIN cache'[c]
                        /\ cache'[c][k] = cache[c][k]

\* C1: for a wrapper made with default options, a call whose key (the first
\* argument) is not stored invokes the original once, and the value the original
\* returns is what the wrapper returns and stores; a call whose key is stored
\* returns the stored value, invokes nothing and changes nothing; and once no call
\* for the key is in progress the stored value stays until a memoizeClear of the
\* wrapper succeeds.
C1_FirstCallThenHits == [][C1Step]_vars

\* A default wrapper of F answered a call from its cache with the value of the
\* only invocation F ever had.
C1_Witness ==
    \E w \in Wrappers :
        /\ DefaultOptions(w)
        /\ memoized[w].function_ = F
        /\ last.op = "call" /\ last.fn = w /\ last.outcome = "hit"
        /\ last.value = 1
        /\ index[F] = 1
        /\ stack = <<>>

\* --------------------------------------------------------------- C2, C3, C4, C5
\* The wrapper was made with a maxAge of N milliseconds, N >= 1.
FiniteMaxAge(w) == IsNumber(memoized[w].maxAge)

\* The step writes the item of key k in storage c.
Stored(c, k) ==
    /\ k \in DOMAIN cache'[c]
    /\ k \in DOMAIN cache[c] => cache'[c][k] # cache[c][k]

C2Step ==
    \A w \in Wrappers :
        FiniteMaxAge(w) =>
            LET c == memoized[w].cache
            IN  /\ \A arguments_ \in ArgLists :
                    LET k == KeyOf(memoized[w].cacheKey, arguments_)
                    IN  (CallStep(w, arguments_) /\ k \in DOMAIN cache[c]) =>
                            /\ last'.outcome = "hit"
                            /\ last'.value = cache[c][k].data
                            /\ index' = index
                /\ \A k \in DOMAIN cache[c] :
                    (NumLess(Num(now'), cache[c][k].maxAge) /\ ~ClearedStep(c)) =>
                        k \in DOMAIN cache'[c]

\* C2: with a maxAge of N, an item stored at time t is still stored at every
\* moment before t + N unless a memoizeClear of its storage succeeded since, and
\* a call whose key is stored returns the stored value without invoking the
\* original: every call for the key before t + N is answered from the cache.
C2_CachedUntilMaxAge == [][C2Step]_vars

C3Step ==
    /\ \A t \in DOMAIN timers :
        TimerFire(t) =>
            LET c == timers[t].cache
                k == timers[t].key
            IN  /\ \A w \in Wrappers :
                    memoized[w].cache = c =>
                        ~NumLess(Num(now), NumAdd(Num(timers[t].setAt), memoized[w].maxAge))
                /\ k \notin DOMAIN cache'[c]
                /\ \A d \in DOMAIN cache :
                    \A j \in DOMAIN cache[d] :
                        (d # c \/ j # k) => (j \in DOMAIN cache'[d] /\ cache'[d][j] = cache[d][j])
    /\ \A w \in Wrappers :
        FiniteMaxAge(w) =>
            LET c == memoized[w].cache
            IN  /\ \A k \in DOMAIN cache'[c] :
                    Stored(c, k) =>
                        \E t \in DOMAIN timers' \ DOMAIN timers :
                            timers'[t] = [cache |-> c, key |-> k, setAt |-> now,
                                          delay |-> memoized[w].maxAge, state |-> "pending"]
                /\ \A arguments_ \in ArgLists :
                    ( /\ last.op = "timer" /\ last.fn = c
                      /\ last.key = KeyOf(memoized[w].cacheKey, arguments_)
                      /\ CallStep(w, arguments_) ) =>
                        /\ last'.outcome = "miss"
                        /\ memoized[w].function_ = F => index'[F] = index[F] + 1

\* C3: with a maxAge of N, every store schedules one timer of N milliseconds for
\* its key and storage; the timer does not fire before N milliseconds have passed
\* since the store, and when it fires it deletes that key from that storage and
\* nothing else, so that a call for the key made once the timer has fired is a
\* miss and invokes the original again.
C3_EvictedByTimer == [][C3Step]_vars

\* The only timer there ever was has fired, and the call for its key that
\* followed missed and invoked F a second time.
C3_Witness ==
    /\ Len(timers) = 1
    /\ timers[1].state = "fired"
    /\ last.op = "call" /\ last.outcome = "miss"
    /\ last.fn \in Wrappers
    /\ memoized[last.fn].cache = timers[1].cache
    /\ memoized[last.fn].function_ = F
    /\ last.key = timers[1].key
    /\ index[F] = 2

C4Step ==
    \A c \in DOMAIN cache :
        ClearedStep(c) =>
            \A t \in DOMAIN timers :
                (timers[t].state = "pending" /\ timers[t].cache = c) =>
                    timers'[t].state = "cleared"

\* C4: a memoizeClear that succeeds cancels every pending timer whose callback
\* deletes from the storage it clears, so that no timer scheduled by a store
\* before the clear fires after it.
C4_ClearCancelsTimers == [][C4Step]_vars

C5Step ==
    \A w \in Wrappers :
        /\ ClearedStep(cacheStore[w]) => cache'[cacheStore[w]] = EmptyMap
        /\ (last.op = "memoizeClear" /\ last.outcome = "cleared" /\ last.fn = w) =>
            /\ cache[memoized[w].cache] = EmptyMap
            /\ \A arguments_ \in ArgLists :
                CallStep(w, arguments_) =>
                    /\ last'.outcome = "miss"
                    /\ memoized[w].function_ = F => index'[F] = index[F] + 1

\* C5: a memoizeClear of a wrapper that succeeds leaves the wrapper's storage
\* empty, and the call of the wrapper that follows it, whatever its key, is a
\* miss and invokes the original again.
C5_ClearEmptiesStorage == [][C5Step]_vars

\* A call missed and invoked F again although the timer of the store of its
\* key is still pending and its delay has not passed: inside the maxAge window.
C5_Witness ==
    /\ Len(memoized) = 1
    /\ Len(timers) = 1
    /\ timers[1].state = "pending"
    /\ NumLess(Num(now - timers[1].setAt), timers[1].delay)
    /\ last.op = "call" /\ last.outcome = "miss" /\ last.fn = 1
    /\ last.key = timers[1].key
    /\ memoized[1].function_ = F
    /\ index[F] = 2

\* ------------------------------------------------------------------------ C6
\* This step is an original callable throwing.
ThrowStep == last'.op = "throw"

C6Step ==
    /\ ThrowStep =>
        /\ last'.outcome = "threw"
        /\ cache' = cache
        /\ timers' = timers
        /\ cacheTimerStore' = cacheTimerStore
        /\ Len(stack') < Len(stack)
        /\ stack' = SubSeq(stack, 1, Len(stack'))
        /\ stack' # <<>> => IsOriginal(stack'[Len(stack')].fn)
        /\ \A i \in (Len(stack') + 1)..(Len(stack) - 1) : ~IsOriginal(stack[i].fn)
    /\ \A w \in Wrappers :
        (last.op = "throw" /\ last.fn = w /\ last.key \notin DOMAIN cache[memoized[w].cache]) =>
            \A arguments_ \in ArgLists :
                ( /\ KeyOf(memoized[w].cacheKey, arguments_) = last.key
                  /\ CallStep(w, arguments_) ) =>
                    /\ last'.outcome = "miss"
                    /\ memoized[w].function_ = F => index'[F] = index[F] + 1

\* C6: when the original callable throws during a miss, the exception passes
\* through every wrapper waiting for the result and reaches the caller; no item
\* is stored, no timer is scheduled and none is registered; the call with the
\* same key that follows is a miss and invokes the original again.
C6_FailureNotCached == [][C6Step]_vars

\* The original threw under a wrapper with a maxAge: the caller of the wrapper
\* got the exception, the storage is empty and no timer was ever scheduled.
C6_Witness ==
    /\ last.op = "throw" /\ last.outcome = "threw"
    /\ last.fn \in Wrappers
    /\ FiniteMaxAge(last.fn)
    /\ cache[memoized[last.fn].cache] = EmptyMap
    /\ timers = <<>>
    /\ stack = <<>>
    /\ index[F] = 1

\* ------------------------------------------------------------------------ C7
C7Step ==
    \A fn \in Functions :
        ClearStep(fn) =>
            /\ fn \notin DOMAIN cacheStore =>
                /\ last'.outcome = "TypeError: not memoized"
                /\ cache' = cache
                /\ timers' = timers
            /\ (fn \in DOMAIN cacheStore /\ ~clearable[cacheStore[fn]]) =>
                /\ last'.outcome = "TypeError: can't be cleared"
                /\ cache' = cache
                /\ timers' = timers

\* C7: memoizeClear of a function with no storage association throws the "not
\* memoized" TypeError, memoizeClear of a function whose storage has no clear()
\* throws the "can't be cleared" TypeError, and in both cases every storage and
\* every timer is left as it was.
C7_ClearFailsUntouched == [][C7Step]_vars

\* memoizeClear failed on a storage without clear() that holds an item whose
\* timer is pending.
C7_Witness ==
    /\ last.op = "memoizeClear" /\ last.outcome = "TypeError: can't be cleared"
    /\ cache[cacheStore[last.fn]] # EmptyMap
    /\ \E t \in DOMAIN timers :
        timers[t].state = "pending" /\ timers[t].cache = cacheStore[last.fn]

\* ------------------------------------------------------------------------ C8
C8Step ==
    /\ \A fn \in Functions, options \in OptionSets :
        (options.maxAge = Num(0) /\ MemoizeStep(fn, options)) =>
            /\ last'.outcome = "returned"
            /\ last'.value = fn
            /\ UNCHANGED <<memoized, cacheStore, cacheTimerStore, cache, timers>>
    /\ \A arguments_ \in ArgLists :
        CallStep(F, arguments_) =>
            /\ index'[F] = index[F] + 1
            /\ UNCHANGED <<cache, timers, cacheTimerStore>>
    /\ (ReturnStep /\ last'.fn = F) => UNCHANGED <<cache, timers, cacheTimerStore>>

\* C8: memoize with maxAge 0 returns the function it was given and creates no
\* wrapper, storage, registry entry or timer; calling the original callable so
\* returned invokes it every time, and neither the call nor its return stores an
\* item or schedules a timer.
C8_ZeroMaxAgeReturnsOriginal == [][C8Step]_vars

\* memoize(F, {maxAge: 0}) has just returned F itself, with no wrapper made.
C8_Witness ==
    /\ last.op = "memoize" /\ last.outcome = "returned"
    /\ last.fn = F /\ last.value = F
    /\ memoized = <<>>
    /\ index[F] >= 1

\* ------------------------------------------------------------------------ C9
C9Step ==
    \A fn \in Functions, options \in OptionSets :
        (IsNumber(options.maxAge) /\ MemoizeStep(fn, options)) =>
            IF NumLess(options.maxAge, Num(0))
                \/ NumLess(Num(maxSetIntervalValue), options.maxAge)
            THEN /\ last'.outcome \in {"TypeError: cannot exceed", "TypeError: negative"}
                 /\ last'.value = 0
                 /\ UNCHANGED <<memoized, cacheStore, cacheTimerStore, cache, clearable>>
            ELSE options.maxAge # Num(0) =>
                 LET w == Len(memoized) + 1
                 IN  /\ last'.outcome = "returned"
                     /\ last'.value = w
                     /\ Len(memoized') = w
                     /\ memoized'[w].maxAge = options.maxAge
                     /\ memoized'[w].function_ = fn
                     /\ w \in DOMAIN cacheStore'
                     /\ cacheStore'[w] = memoized'[w].cache
                     /\ cache'[cacheStore'[w]] = EmptyMap

\* C9: memoize with a maxAge below 0 or above 2147483647 throws a TypeError,
\* returns no wrapper and leaves the wrappers and both registry maps as they
\* were; memoize with a maxAge from 1 to 2147483647 returns a new wrapper with
\* that maxAge, registered with an empty storage of its own.
C9_MaxAgeRange == [][C9Step]_vars

\* A wrapper made with maxAge 2147483647 answered a call from its cache.
C9_Witness ==
    /\ last.op = "call" /\ last.outcome = "hit"
    /\ last.fn \in Wrappers
    /\ memoized[last.fn].maxAge = Num(maxSetIntervalValue)
    /\ index[F] = 1

\* ----------------------------------------------------------------------- C10
C10Step ==
    /\ \A w \in Wrappers, arguments_ \in ArgLists :
        CallStep(w, arguments_) =>
            LET k == IF memoized[w].cacheKey = "undefined" THEN arguments_[1]
                     ELSE JSONStringify(arguments_)
                c == memoized[w].cache
            IN  /\ last'.key = k
                /\ last'.outcome = IF k \in DOMAIN cache[c] THEN "hit" ELSE "miss"
                /\ k \notin DOMAIN cache[c] =>
                    \/ k \in DOMAIN cache'[c]
                    \/ \E i \in (Len(stack) + 1)..Len(stack') :
                        stack'[i].fn = w /\ stack'[i].key = k
    /\ \A x \in ArgLists, y \in ArgLists :
        (last'.op = "call" /\ x = last'.arguments_) =>
            /\ (KeyOf("undefined", x) = KeyOf("undefined", y)) <=> (x[1] = y[1])
            /\ (KeyOf("JSON.stringify", x) = KeyOf("JSON.stringify", y)) <=> (x = y)

\* C10: a call is looked up, and on a miss stored, under cacheKey(arguments) when
\* a cacheKey was given and under the first argument otherwise; with the default
\* key two argument lists share an item exactly when their first arguments are
\* equal, so a call hits exactly when an item for its first argument is stored.
C10_KeyDerivation == [][C10Step]_vars

\* A wrapper with the default key answered the call ("a", "b") from the item
\* stored under "a", F having run once.
C10_Witness ==
    /\ last.op = "call" /\ last.outcome = "hit"
    /\ last.fn \in Wrappers
    /\ memoized[last.fn].cacheKey = "undefined"
    /\ last.arguments_ = <<"a", "b">>
    /\ last.key = "a"
    /\ index[F] = 1

\* ----------------------------------------------------------------------- C11
C11Step ==
    \A w \in Wrappers :
        LET c == memoized[w].cache
        IN  /\ w \in DOMAIN cacheStore /\ cacheStore[w] = c
            /\ w \in DOMAIN cacheStore' /\ cacheStore'[w] = c
            /\ memoized'[w] = memoized[w]
            /\ clearable'[c] = clearable[c]
            /\ (ClearStep(w) /\ clearable[c]) =>
                /\ last'.outcome = "cleared"
                /\ cacheStore' = cacheStore
                /\ memoized' = memoized
            /\ (last.op = "memoizeClear" /\ last.outcome = "cleared" /\ last.fn = w) =>
                \A arguments_ \in ArgLists :
                    CallStep(w, arguments_) =>
                        /\ last'.outcome = "miss"
                        /\ \/ last'.key \in DOMAIN cache'[c]
                           \/ \E i \in (Len(stack) + 1)..Len(stack') :
                                stack'[i].fn = w /\ stack'[i].key = last'.key
            /\ ReturnStep =>
                \A i \in ReturnedThrough :
                    stack[i].fn = w =>
                        /\ stack[i].key \in DOMAIN cache'[c]
                        /\ cache'[c][stack[i].key].data = stack[Len(stack)].result

\* C11: no step removes or changes the association of a wrapper with its
\* storage, memoizeClear least of all: a memoizeClear of a wrapper whose storage
\* has clear() succeeds in every reachable state, so also after earlier clears;
\* the call that follows a clear is a miss, and what it computes is stored in the
\* storage the wrapper had before the clear.
C11_ClearKeepsAssociation == [][C11Step]_vars

\* The key "a" was stored twice in the storage of the only wrapper, the second
\* time by the call that has just returned, and the timer of the first store is
\* still pending: a memoizeClear emptied the storage in between.
C11_Witness ==
    /\ Len(memoized) = 1
    /\ memoized[1].function_ = F
    /\ Len(timers) = 2
    /\ \A t \in DOMAIN timers :
        timers[t].state = "pending" /\ timers[t].cache = cacheStore[1] /\ timers[t].key = "a"
    /\ last.op = "return" /\ last.fn = 1 /\ last.value = 2
    /\ "a" \in DOMAIN cache[cacheStore[1]]
    /\ cache[cacheStore[1]]["a"].data = 2
    /\ index[F] = 2
    /\ stack = <<>>

\* ------------------------------------------------ claims on memoizeDecorator
\* This step is receiver.member(...) for a decorated method.
MethodStep(member, receiver) ==
    last'.op = "method" /\ access'.member = member /\ access'.receiver = receiver

\* This step is a read of receiver.member for a decorated getter.
GetStep(member, receiver) ==
    last'.op = "get" /\ access'.member = member /\ access'.receiver = receiver

\* The wrappers made so far for the method member bound to receiver.
WrappersOf(member, receiver) ==
    {w \in Wrappers : memoized[w].function_ = Bound(member, receiver)}

\* The options of the decorator let memoize return a wrapper.
Wraps(decorator) ==
    /\ ~ReturnsOriginal(decorators[decorator].maxAge)
    /\ MaxAgeError(decorators[decorator].maxAge) = "none"

\* ----------------------------------------------------------------------- C12
C12Step ==
    \A member \in Members, receiver \in Receivers :
        (MethodStep(member, receiver) /\ Wraps(descriptors[member])) =>
            LET w == last'.fn
            IN  /\ w \in 1..Len(memoized')
                /\ memoized'[w].function_ = Bound(member, receiver)
                /\ IF WrappersOf(member, receiver) = {}
                   THEN w = Len(memoized) + 1 /\ Len(memoized') = w
                   ELSE w \in WrappersOf(member, receiver) /\ memoized' = memoized
                /\ \A v \in 1..Len(memoized') :
                    memoized'[v].cache = memoized'[w].cache =>
                        BoundThis(memoized'[v].function_) = receiver
                /\ last'.outcome = "hit" =>
                    /\ WrappersOf(member, receiver) # {}
                    /\ instances' = instances

\* C12: the first invocation of a decorated method on a receiver makes the
\* wrapped function of that method bound to that receiver, every later
\* invocation on the receiver applies that same wrapped function, and the storage
\* it looks up and stores in is used by wrapped functions of that receiver only,
\* so that a hit is never answered from what another receiver stored.
C12_OneCachePerReceiver == [][C12Step]_vars

\* ----------------------------------------------------------------------- C13
C13Step ==
    /\ \A member \in Members, receiver \in Receivers :
        GetStep(member, receiver) =>
            LET d == descriptors[member]
            IN  /\ last'.outcome \in {"cached", "computed", "threw"}
                /\ last'.outcome = "cached" =>
                    /\ receiver \in DOMAIN decorators[d].memoizedValuesMap
                    /\ last'.value = decorators[d].memoizedValuesMap[receiver]
                    /\ \E n \in 1..MaxCalls : last'.value = Result(member, n)
                    /\ instances' = instances
                /\ last'.outcome = "computed" =>
                    /\ receiver \notin DOMAIN decorators[d].memoizedValuesMap
                    /\ instances'[receiver] = instances[receiver] + 1
                    /\ last'.value = Result(member, instances'[receiver])
                    /\ decorators'[d].memoizedValuesMap[receiver] = last'.value
                /\ \A r \in Receivers \ {receiver} : instances'[r] = instances[r]
    /\ \A d \in DOMAIN decorators :
        \A r \in DOMAIN decorators[d].memoizedValuesMap :
            /\ r \in DOMAIN decorators'[d].memoizedValuesMap
            /\ decorators'[d].memoizedValuesMap[r] = decorators[d].memoizedValuesMap[r]

\* C13: a read of a decorated getter on a receiver either computes the value
\* by invoking the original getter on that receiver, once, or returns without
\* invoking anything the value that this getter computed on that receiver
\* before; a value once kept is never changed or dropped, whatever the options
\* of the decorator and however much time passes; a read on one receiver leaves
\* the other receivers as they were.
C13_GetterOncePerReceiver == [][C13Step]_vars

\* ----------------------------------------------------------------------- C14
C14Step ==
    /\ last'.op = "memoizeDecorator" =>
        \A options \in OptionSets :
            ( /\ MaxAgeError(options.maxAge) # "none"
              /\ MemoizeDecorator(options.maxAge, options.cacheKey, options.cache) ) =>
                /\ last'.outcome = MaxAgeError(options.maxAge)
                /\ decorators' = decorators
    /\ last'.op = "method" =>
        last'.outcome \notin {"TypeError: cannot exceed", "TypeError: negative"}

\* C14: memoizeDecorator called with a maxAge below 0 or above 2147483647
\* throws the TypeError of the range check itself and returns no decorator, so
\* that no invocation of a decorated method ever throws it.
C14_DecoratorMaxAgeRange == [][C14Step]_vars

\* ----------------------------------------------------------------------- C15
\* The pending timers whose callback deletes key k from storage c.
PendingFor(c, k) ==
    {t \in DOMAIN timers :
        timers[t].state = "pending" /\ timers[t].cache = c /\ timers[t].key = k}

\* C15: every item in the storage of a wrapper with a maxAge has exactly one
\* pending timer for its key and storage, and no item in the storage of a
\* wrapper without maxAge has any.
C15_OneTimerPerEntry ==
    \A w \in Wrappers :
        \A k \in DOMAIN cache[memoized[w].cache] :
            Cardinality(PendingFor(memoized[w].cache, k)) = IF FiniteMaxAge(w) THEN 1 ELSE 0

\* ----------------------------------------------------------------------- C16
C16Step ==
    \A member \in Members, receiver \in Receivers :
        /\ (MethodStep(member, receiver) /\ last'.fn \in 1..Len(memoized')) =>
            BoundMember(memoized'[last'.fn].function_) = member
        /\ (GetStep(member, receiver) /\ last'.outcome = "cached") =>
            \E n \in 1..MaxCalls : last'.value = Result(member, n)

\* C16: the wrapped function an invocation of a decorated method applies wraps
\* that method and no other member, and the value a read of a decorated getter
\* returns without computing was computed by that getter, whichever decorators
\* the members of the class carry.
C16_StatePerMember == [][C16Step]_vars

\* ----------------------------------------------------------------------- C17
\* The item the store that scheduled the timer wrote is no longer in the
\* storage: the key is absent, or holds an item of a later store.
EntryGone(timer) ==
    LET c == timers[timer].cache
        k == timers[timer].key
    IN  \/ k \notin DOMAIN cache[c]
        \/ cache[c][k].maxAge # NumAdd(Num(timers[timer].setAt), timers[timer].delay)

C17Step ==
    \A t \in DOMAIN timers :
        (last'.op = "timer" /\ last'.value = t /\ EntryGone(t)) => cache' = cache

\* C17: a timer that fires when the item it was scheduled for is gone from the
\* storage leaves every storage as it was: it deletes no item stored later
\* under the same key.
C17_LateTimerIsNoOp == [][C17Step]_vars

\* ----------------------------------------------------------------------- C18
C18Step ==
    \A w \in Wrappers :
        LET c == memoized[w].cache
        IN  /\ \A arguments_ \in ArgLists :
                LET k == KeyOf(memoized[w].cacheKey, arguments_)
                IN  (CallStep(w, arguments_) /\ InProgress(w, k) /\ k \notin DOMAIN cache[c]) =>
                        /\ last'.outcome = "miss"
                        /\ memoized[w].function_ = F =>
                            /\ index'[F] = index[F] + 1
                            /\ Len(stack') = Len(stack) + 2
                            /\ stack'[Len(stack')].fn = F
                            /\ stack'[Len(stack') - 1] = [fn |-> w, key |-> k, result |-> 0]
                            /\ cache' = cache
                        /\ memoized[w].function_ # F =>
                            \/ k \in DOMAIN cache'[c]
                            \/ \E i \in (Len(stack) + 1)..Len(stack') :
                                    stack'[i] = [fn |-> w, key |-> k, result |-> 0]
            /\ ReturnStep =>
                \A i \in ReturnedThrough :
                    stack[i].fn = w =>
                        /\ DOMAIN cache'[c] = DOMAIN cache[c] \cup {stack[i].key}
                        /\ cache'[c][stack[i].key].data = stack[Len(stack)].result
                        /\ \A j \in DOMAIN cache[c] \ {stack[i].key} : cache'[c][j] = cache[c][j]

\* C18: a call of a wrapper for a key that is not stored invokes the original
\* although another call of the wrapper for that key is still in progress, and
\* waits for it in turn (a wrapper of a wrapper invokes the inner wrapper, which
\* may answer at once); when an original returns, each wrapper that waited for
\* it writes the result under its key, replacing the item a call that finished
\* earlier stored there, so that the storage holds one item for the key, that
\* of the call that finished last.
C18_NoInFlightDeduplication == [][C18Step]_vars

\* The first invocation of F has just returned through the only wrapper and
\* its result 1 replaced the result 2 that a second invocation, started and
\* finished meanwhile for the same key, had stored: both stores left a timer.
C18_Witness ==
    /\ Len(memoized) = 1
    /\ memoized[1].function_ = F
    /\ index[F] = 2
    /\ stack = <<>>
    /\ last.op = "return" /\ last.fn = 1 /\ last.value = 1
    /\ DOMAIN cache[cacheStore[1]] = {last.key}
    /\ cache[cacheStore[1]][last.key].data = 1
    /\ Len(timers) = 2
    /\ \A t \in DOMAIN timers :
        timers[t].state = "pending" /\ timers[t].cache = cacheStore[1] /\ timers[t].key = last.key

\* ----------------------------------------------------------------------- C19
C19Step ==
    \A w \in Wrappers, arguments_ \in ArgLists :
        CallStep(w, arguments_) =>
            LET c == memoized[w].cache
                k == KeyOf(memoized[w].cacheKey, arguments_)
            IN  /\ (last'.outcome = "hit") <=> (k \in DOMAIN cache[c])
                /\ k \in DOMAIN cache[c] =>
                    /\ last'.value = cache[c][k].data
                    /\ index' = index
                    /\ cache'[c] = cache[c]
                    /\ timers' = timers

\* C19: a call is a hit exactly when its key is in the storage, whatever the
\* clock says: an item whose expiry time has passed and whose timer has not
\* fired yet is returned, and the original is not invoked.
C19_HitIgnoresClock == [][C19Step]_vars

\* A call was answered from an item whose expiry time had passed, the timer
\* that will delete it still pending.
C19_Witness ==
    /\ last.op = "call" /\ last.outcome = "hit"
    /\ last.fn \in Wrappers
    /\ LET c == memoized[last.fn].cache
       IN  /\ last.key \in DOMAIN cache[c]
           /\ ~NumLess(Num(now), cache[c][last.key].maxAge)
           /\ \E t \in DOMAIN timers :
                /\ timers[t].state = "pending"
                /\ timers[t].cache = c
                /\ timers[t].key = last.key
    /\ index[F] = 1

\* ----------------------------------------------------------------------- C20
\* C20: every handle in a timer set of the registry is the handle of a pending
\* timer.
C20_RegistryHoldsPendingOnly ==
    \A f \in DOMAIN cacheTimerStore :
        \A t \in cacheTimerStore[f] : timers[t].state = "pending"

\* ----------------------------------------------------------------------- C21
\* Two wrappers made by two memoize calls on the same original callable, each
\* with the storage memoize made for it.
Siblings(w, v) ==
    /\ w # v
    /\ IsOriginal(memoized[w].function_)
    /\ memoized[v].function_ = memoized[w].function_
    /\ clearable[memoized[w].cache]
    /\ clearable[memoized[v].cache]

\* This step is a store by wrapper w, the callback of a timer a store of w
\* scheduled, or memoizeClear(w).
ActsOn(w) ==
    \/ ReturnStep /\ \E i \in ReturnedThrough : stack[i].fn = w
    \/ last'.op = "timer" /\ last'.fn = memoized[w].cache
    \/ ClearStep(w)

C21Step ==
    \A w \in Wrappers, v \in Wrappers :
        (Siblings(w, v) /\ ActsOn(w)) =>
            LET c == memoized[v].cache
            IN  /\ cache'[c] = cache[c]
                /\ \A t \in DOMAIN timers' :
                    timers'[t].cache = c => t \in DOMAIN timers /\ timers'[t] = timers[t]
                /\ \A arguments_ \in ArgLists :
                    LET k == KeyOf(memoized[v].cacheKey, arguments_)
                    IN  IsHit(cache'[c], k) <=> IsHit(cache[c], k)

\* C21: of two wrappers made by separate memoize calls on the same original
\* callable with default storage, a store by one, the firing of a timer of one
\* and a memoizeClear of one leave the storage of the other as it was, with the
\* same items and the same timers, so that the same calls of the other hit.
C21_SiblingsIndependent == [][C21Step]_vars

\* Both wrappers of F stored a result of their own, then memoizeClear emptied
\* the storage of the first and the second still holds its item.
C21_Witness ==
    /\ Len(memoized) = 2
    /\ Siblings(1, 2)
    /\ index[F] = 2
    /\ last.op = "memoizeClear" /\ last.fn = 1 /\ last.outcome = "cleared"
    /\ cache[memoized[1].cache] = EmptyMap
    /\ \E k \in DOMAIN cache[memoized[2].cache] : cache[memoized[2].cache][k].data = 2

\* ----------------------------------------------------------------------- C22
C22Step ==
    (last'.op = "memoizeClear" /\ last'.outcome = "cleared") =>
        /\ \A t \in DOMAIN timers :
            (timers[t].state = "pending" /\ timers'[t].state # "pending") =>
                timers[t].cache = cacheStore[last'.fn]
        /\ \A w \in Wrappers :
            FiniteMaxAge(w) =>
                \A k \in DOMAIN cache'[memoized[w].cache] :
                    \E t \in DOMAIN timers' :
                        /\ timers'[t].state = "pending"
                        /\ timers'[t].cache = memoized[w].cache
                        /\ timers'[t].key = k

\* C22: a memoizeClear that succeeds cancels no timer but those whose callback
\* deletes from the storage it clears, and after it every item still present in
\* the storage of a wrapper with a maxAge has a pending timer that will delete
\* it, also when the function cleared is a wrapper that was given to memoize
\* again.
C22_ClearCancelsOwnTimersOnly == [][C22Step]_vars

\* ----------------------------------------------------------------------- C23
C23Step ==
    \A w \in Wrappers, arguments_ \in ArgLists :
        (CallStep(w, arguments_) /\ last'.outcome = "hit") =>
            LET c == memoized[w].cache
                k == KeyOf(memoized[w].cacheKey, arguments_)
            IN  /\ k \in DOMAIN cache[c]
                /\ last'.value = cache[c][k].data
                /\ cache' = cache
                /\ cache'[c][k].maxAge = cache[c][k].maxAge
                /\ timers' = timers
                /\ cacheStore' = cacheStore
                /\ cacheTimerStore' = cacheTimerStore
                /\ index' = index
                /\ stack' = stack

\* C23: a call that is answered from the storage changes nothing: every
\* storage, the expiry time kept with the item, the timers and their schedules
\* and both registries are as before the call, and no callable was invoked, so
\* that a hit never postpones the deletion of the item.
C23_HitChangesNothing == [][C23Step]_vars

\* A wrapper with the largest maxAge answered a call from its storage some time
\* after the store: the item still carries the expiry time of the store and the
\* only timer is the one the store scheduled, at the time of the store.
C23_Witness ==
    /\ last.op = "call" /\ last.outcome = "hit"
    /\ last.fn \in Wrappers
    /\ now >= 1
    /\ index[F] = 1
    /\ LET c == memoized[last.fn].cache
       IN  /\ memoized[last.fn].maxAge = Num(maxSetIntervalValue)
           /\ last.key \in DOMAIN cache[c]
           /\ cache[c][last.key].maxAge = NumAdd(Num(0), Num(maxSetIntervalValue))
           /\ Len(timers) = 1
           /\ timers[1] = [cache |-> c, key |-> last.key, setAt |-> 0,
                           delay |-> Num(maxSetIntervalValue), state |-> "pending"]

====
